---- MODULE Spec2Model ----
(***************************************************************************)
(* Userscript proxy: the metadata validator (modules/metadata.py), the     *)
(* injection planner (modules/inject.py) and the response rewriter         *)
(* (injector.py), as state machines over bounded inputs.                   *)
(***************************************************************************)
EXTENDS Integers, Sequences, FiniteSets, TLC

(***************************************************************************)
(* Bounds of the model.                                                    *)
(***************************************************************************)
MaxTags == 2
MaxItems == 3

(***************************************************************************)
(* Python values.  A TagValue is a str or a bool; None, True and False are *)
(* kept apart from every str by their spelling.                            *)
(***************************************************************************)
PyNone == "<None>"
PyTrue == "<True>"
PyFalse == "<False>"
StrValues == {"A", "B"}

IsStr(v) == v \in StrValues

(***************************************************************************)
(* metadata.py: Tag_string / Tag_boolean, MetadataItem, Metadata.          *)
(***************************************************************************)
TagNames == {"name", "noframes"}

\* A predicate of the schema is modelled by the set of values it accepts.
AcceptsAOrTrue == "accepts A or True"
applyPredicate(p, v) == v \in {"A", PyTrue}

\* The string tag of the model is @name, its boolean tag @noframes.
Tag_string ==
    [name : {"name"}, kind : {"Tag_string"}, unique : BOOLEAN,
     default : {PyNone, "A"}, required : BOOLEAN,
     predicate : {PyNone, AcceptsAOrTrue}]

\* The built-in schema puts a predicate on a string tag (run-at) only.
Tag_boolean ==
    [name : {"noframes"}, kind : {"Tag_boolean"}, unique : BOOLEAN,
     default : {PyNone, PyTrue, PyFalse}, required : BOOLEAN,
     predicate : {PyNone}]

Tag == Tag_string \cup Tag_boolean

\* What parse() yields for one line: (tagName, True) or (tagName, text).
MetadataItem == [name : TagNames, value : StrValues \cup {PyTrue}]

first(pair) == pair.name
second(pair) == pair.value

SeqsUpTo(S, n) == UNION {[1..k -> S] : k \in 0..n}

Names(items) == [i \in 1..Len(items) |-> first(items[i])]

Distinct(s) == \A i, j \in 1..Len(s) : s[i] = s[j] => i = j

\* A schema is a list of tags, unique by name.
Schemas == {s \in SeqsUpTo(Tag, MaxTags) : Distinct(Names(s))}
Metadatas == SeqsUpTo(MetadataItem, MaxItems)

InSeq(x, s) == \E i \in 1..Len(s) : s[i] = x

\* The None that tagByName returns when no tag has the name.
NoTag ==
    [name |-> PyNone, kind |-> PyNone, unique |-> FALSE, default |-> PyNone,
     required |-> FALSE, predicate |-> PyNone]

\* next((x for x in tags if x.name == tagName), None)
tagByName(tags, tagName) ==
    IF \E i \in 1..Len(tags) : tags[i].name = tagName
    THEN tags[CHOOSE i \in 1..Len(tags) :
                 /\ tags[i].name = tagName
                 /\ \A j \in 1..(i - 1) : tags[j].name # tagName]
    ELSE NoTag

(***************************************************************************)
(* The outcome of a call: a returned Metadata or a raised MetadataError.   *)
(***************************************************************************)
Returned(md) == [err |-> "none", tagName |-> "", metadata |-> md]
Raised(kind, n) == [err |-> kind, tagName |-> n, metadata |-> <<>>]
Pending == [err |-> "pending", tagName |-> "", metadata |-> <<>>]

\* A coercion that keeps the value as written.
coerceBooleanKeep(tag, tagValue) == tagValue

\* tagValue = tagValue is not False
coerceBoolean(tag, tagValue) == IF tagValue # PyFalse THEN PyTrue ELSE PyFalse

validatePair(tags, pair) ==
    LET tagName == first(pair)
        tagValue == second(pair)
        tag == tagByName(tags, tagName)
    IN  IF tag = NoTag
        THEN [err |-> "none", item |-> pair]
        ELSE IF tag.kind = "Tag_string" /\ ~IsStr(tagValue)
        THEN [err |-> "MISSING_VALUE", item |-> pair]
        ELSE LET v == IF tag.kind = "Tag_boolean"
                      THEN coerceBoolean(tag, tagValue)
                      ELSE tagValue
             IN  IF tag.predicate # PyNone /\ ~applyPredicate(tag.predicate, v)
                 THEN [err |-> "PREDICATE_FAILED", item |-> pair]
                 ELSE [err |-> "none", item |-> [name |-> tagName, value |-> v]]

\* A fold that drops nothing, and one that drops every repeated name.
handleDuplicateKeepAll(tags, acc, pair) == Append(acc, pair)
handleDuplicateAnyName(tags, acc, pair) ==
    IF InSeq(first(pair), Names(acc)) THEN acc ELSE Append(acc, pair)

\* handleDuplicate: drop pair when its name is that of a known unique tag
\* already seen in acc.

handleDuplicate(tags, acc, pair) ==
    LET name == first(pair)
        tag == tagByName(tags, name)
    IN  IF tag # NoTag /\ tag.unique /\ InSeq(name, Names(acc))
        THEN acc
        ELSE Append(acc, pair)

RECURSIVE reduceDuplicates(_, _, _)
reduceDuplicates(tags, acc, rest) ==
    IF rest = <<>> THEN acc
    ELSE reduceDuplicates(tags, handleDuplicate(tags, acc, Head(rest)), Tail(rest))

withoutDuplicates(tags, metadata) == reduceDuplicates(tags, <<>>, metadata)

\* withDefaults: (tag.name, tag.default) for the tags not named in metadata
\* whose default is not None, in schema order.
RECURSIVE neededDefaults(_, _)
neededDefaults(tags, tagNamesThatWeHave) ==
    IF tags = <<>> THEN <<>>
    ELSE LET tag == Head(tags)
             rest == neededDefaults(Tail(tags), tagNamesThatWeHave)
         IN  IF ~InSeq(tag.name, tagNamesThatWeHave) /\ tag.default # PyNone
             THEN <<[name |-> tag.name, value |-> tag.default]>> \o rest
             ELSE rest

\* Defaults appended whether or not the tag is present.
withDefaultsAlways(tags, metadata) == metadata \o neededDefaults(tags, <<>>)

withDefaults(tags, metadata) == metadata \o neededDefaults(tags, Names(metadata))

\* `name in ourTagNames` on the iterator map(first, metadata): the search
\* starts where the previous one stopped and consumes what it passes.
\* The index of the first item named n at or after pos; 0 when there is none.
indexFrom(names, pos, n) ==
    IF \E i \in pos..Len(names) : names[i] = n
    THEN CHOOSE i \in pos..Len(names) :
             /\ names[i] = n
             /\ \A j \in pos..(i - 1) : names[j] # n
    ELSE 0

RECURSIVE requiredLoop(_, _, _)
requiredLoop(tags, names, pos) ==
    IF tags = <<>> THEN ""
    ELSE IF ~Head(tags).required THEN requiredLoop(Tail(tags), names, pos)
    ELSE LET i == indexFrom(names, pos, Head(tags).name)
         IN  IF i = 0 THEN Head(tags).name
             ELSE requiredLoop(Tail(tags), names, i + 1)

\* The name of the tag assertRequiredPresent raises for; "" when it returns.
assertRequiredPresent(tags, metadata) == requiredLoop(tags, Names(metadata), 1)

\* list(map(validatePair, ...)): the first item that raises decides.
RECURSIVE mapValidatePair(_, _, _)
mapValidatePair(tags, items, done) ==
    IF items = <<>> THEN Returned(done)
    ELSE LET r == validatePair(tags, Head(items))
         IN  IF r.err # "none" THEN Raised(r.err, first(Head(items)))
             ELSE mapValidatePair(tags, Tail(items), Append(done, r.item))

validate(tags, metadata) ==
    LET missing == assertRequiredPresent(tags, metadata)
    IN  IF missing # "" THEN Raised("MISSING_TAG", missing)
        ELSE mapValidatePair(tags,
                 withDefaults(tags, withoutDuplicates(tags, metadata)), <<>>)

(***************************************************************************)
(* The document (a BeautifulSoup tree) in document order: each node with   *)
(* its depth, 0 for the nodes of soup.contents.  A script tag carries its  *)
(* src attribute, its version attribute and its string (the inline body).  *)
(***************************************************************************)
MaxScripts == 2

ElementKinds == {"html", "head", "title", "meta", "body", "p", "script"}

Plain(kind, depth) ==
    [kind |-> kind, depth |-> depth, src |-> PyNone, version |-> PyNone,
     string |-> <<>>]

IsElement(node) == node.kind \in ElementKinds

\* soup.head, soup.body, soup.title: the index of the first tag of that
\* name in document order, 0 for None.
findTag(soup, kind) ==
    IF \E i \in 1..Len(soup) : soup[i].kind = kind
    THEN CHOOSE i \in 1..Len(soup) :
             /\ soup[i].kind = kind
             /\ \A j \in 1..(i - 1) : soup[j].kind # kind
    ELSE 0

\* The index of the last node of the subtree rooted at node i.
subtreeEnd(soup, i) ==
    CHOOSE j \in i..Len(soup) :
        /\ \A k \in (i + 1)..j : soup[k].depth > soup[i].depth
        /\ j = Len(soup) \/ soup[j + 1].depth <= soup[i].depth

\* node.find(): the first element below node i, 0 for None.
findIn(soup, i) ==
    IF \E k \in (i + 1)..subtreeEnd(soup, i) : IsElement(soup[k])
    THEN CHOOSE k \in (i + 1)..subtreeEnd(soup, i) :
             /\ IsElement(soup[k])
             /\ \A j \in (i + 1)..(k - 1) : ~IsElement(soup[j])
    ELSE 0

\* soup.find(): the first element of the document, 0 for None.
findFirst(soup) ==
    IF \E k \in 1..Len(soup) : IsElement(soup[k])
    THEN CHOOSE k \in 1..Len(soup) :
             /\ IsElement(soup[k])
             /\ \A j \in 1..(k - 1) : ~IsElement(soup[j])
    ELSE 0

\* The sequence with node put at index pos.
insertAt(soup, pos, node) ==
    SubSeq(soup, 1, pos - 1) \o <<node>> \o SubSeq(soup, pos, Len(soup))

atDepth(node, d) == [node EXCEPT !.depth = d]

\* soup[i].append(tag): tag becomes the last child of node i.
append(soup, i, tag) ==
    insertAt(soup, subtreeEnd(soup, i) + 1, atDepth(tag, soup[i].depth + 1))

\* soup.append(tag): tag becomes the last node of soup.contents.
soupAppend(soup, tag) == Append(soup, atDepth(tag, 0))

\* soup[i].insert_before(tag)
insert_before(soup, i, tag) == insertAt(soup, i, atDepth(tag, soup[i].depth))

\* soup[i].insert_after(tag)
insert_after(soup, i, tag) ==
    insertAt(soup, subtreeEnd(soup, i) + 1, atDepth(tag, soup[i].depth))

\* The indices of soup.contents, in order.
contents(soup) ==
    LET top == {i \in 1..Len(soup) : soup[i].depth = 0}
        nth[k \in 0..Cardinality(top)] ==
            IF k = 0 THEN 0
            ELSE CHOOSE i \in top : i > nth[k - 1]
                     /\ \A j \in top : j > nth[k - 1] => i <= j
    IN  [k \in 1..Cardinality(top) |-> nth[k]]

\* soup.insert(position, node): node becomes soup.contents[position]
\* (0-based), the last one when position is past the end.
soupInsert(soup, position, node) ==
    LET c == contents(soup)
    IN  IF position >= Len(c) THEN soupAppend(soup, node)
        ELSE insertAt(soup, c[position + 1], atDepth(node, 0))

(***************************************************************************)
(* The documents of the model: a prolog of doctype and text nodes, then    *)
(* head and body, each absent or with children, inside an html element or  *)
(* not.                                                                    *)
(***************************************************************************)
Absent == <<"absent">>

Prologs ==
    {<<>>, <<"doctype">>, <<"text">>, <<"text", "doctype">>, <<"doctype", "text">>}
Heads == {Absent, <<>>, <<"title">>, <<"meta">>, <<"title", "meta">>}
Bodies == {Absent, <<>>, <<"text">>, <<"p">>, <<"text", "p">>, <<"p", "p">>}

Element(kind, children, d) ==
    IF children = Absent THEN <<>>
    ELSE <<Plain(kind, d)>> \o
         [i \in 1..Len(children) |-> Plain(children[i], d + 1)]

Document(prolog, wrapped, head, body) ==
    LET d == IF wrapped THEN 1 ELSE 0
    IN  [i \in 1..Len(prolog) |-> Plain(prolog[i], 0)]
        \o (IF wrapped THEN <<Plain("html", 0)>> ELSE <<>>)
        \o Element("head", head, d) \o Element("body", body, d)

Documents ==
    {Document(p, w, h, b) : p \in Prologs, w \in BOOLEAN, h \in Heads, b \in Bodies}

(***************************************************************************)
(* Userscripts.                                                            *)
(***************************************************************************)
document_start == "document-start"
document_end == "document-end"
document_idle == "document-idle"
RunAts == {document_start, document_end, document_idle}

VERSION == "0.2.0"

ScriptNames == <<"s1", "s2", "s3", "s4">>
ScriptContents == <<"c1", "c2", "c3", "c4">>

Userscript(i, runAt, noframes, downloadURL) ==
    [name |-> ScriptNames[i], version |-> "1.0", runAt |-> runAt,
     noframes |-> noframes, downloadURL |-> downloadURL,
     content |-> ScriptContents[i]]

\* The scripts inject() is called with.
InjectScripts ==
    {Userscript(1, r, n, u) : r \in RunAts, n \in BOOLEAN, u \in {PyNone, "URL"}}

\* The lists of loaded scripts of the response handler, which reads the
\* name, the runAt and the content of each.
LoadedScripts ==
    UNION {{[i \in 1..k |-> Userscript(i, r[i], FALSE, PyNone)] : r \in [1..k -> RunAts]}
           : k \in 0..MaxScripts}

(***************************************************************************)
(* modules/inject.py                                                       *)
(***************************************************************************)
Options == [inline : BOOLEAN, verbose : {FALSE}]

\* soup.new_tag("script")
new_tag == [Plain("script", 0) EXCEPT !.kind = "script"]

idem(x) == x
\* userscript.withEventListener("load"), userscript.withNoframes and
\* userscript.withVersionSuffix: the text they wrap, marked as wrapped.
withEventListener(js) == <<"window.addEventListener(load)">> \o js
withNoframes(js) == <<"if (window.top === window)">> \o js
withVersionSuffix(url, version) == url \o "?v=" \o version

withLoadListenerIfRunAtIdle(s, js) ==
    IF s.runAt = document_idle THEN withEventListener(js) ELSE idem(js)
withNoframesIfNoframes(s, js) ==
    IF s.noframes THEN withNoframes(js) ELSE idem(js)

\* fromOptional(soup.body, soup).append(tag)
insertLateIn(doc, tag) ==
    IF findTag(doc, "body") # 0 THEN append(doc, findTag(doc, "body"), tag)
    ELSE soupAppend(doc, tag)

insertEarlyIn(doc, tag) ==
    LET body == findTag(doc, "body")
        title == findTag(doc, "title")
    IN  IF body # 0 /\ findIn(doc, body) # 0
        THEN insert_before(doc, findIn(doc, body), tag)
        ELSE IF title # 0 THEN insert_after(doc, title, tag)
        ELSE IF findFirst(doc) # 0 THEN insert_after(doc, findFirst(doc), tag)
        ELSE soupAppend(doc, tag)

useInline(s, opts) == opts.inline \/ s.downloadURL = PyNone

\* The remote branch sets src on every tag, the bootstrap body on none.
remoteTagAlwaysSrc(s, tag) ==
    [tag EXCEPT !.src = withVersionSuffix(s.downloadURL, s.version)]

\* inject, lines 27-39: the tag of a script that is loaded remotely.
remoteTag(s, tag) ==
    LET src == withVersionSuffix(s.downloadURL, s.version)
        JS_insertScriptTag == <<"document.head.appendChild(s)">>
        JS_insertionCode ==
            <<"createElement(script)", "setAttribute(version)", "s.src =", src>>
            \o withLoadListenerIfRunAtIdle(s, JS_insertScriptTag)
    IN  IF s.runAt = document_idle \/ s.noframes
        THEN [tag EXCEPT !.string = withNoframesIfNoframes(s, JS_insertionCode)]
        ELSE [tag EXCEPT !.src = src]

\* inject, lines 14-21 and 27-39: the tag as prepared before it is inserted.
preparedTag(s, opts) ==
    LET tag == [new_tag EXCEPT !.version = VERSION]
    IN  IF useInline(s, opts)
        THEN [tag EXCEPT !.string =
                  withNoframesIfNoframes(s,
                      withLoadListenerIfRunAtIdle(s, <<s.content>>))]
        ELSE remoteTag(s, tag)

\* A placement that sends every tag through insertEarlyIn.
placeAlwaysEarly(s, doc, tag) == insertEarlyIn(doc, tag)

\* inject, lines 22-25 and 41-44.
place(s, doc, tag) ==
    IF s.runAt = document_end THEN insertLateIn(doc, tag)
    ELSE insertEarlyIn(doc, tag)

\* inject returns the soup it has changed.  Its except branch returns the
\* exception instead; no step of the try block raises on the documents and
\* scripts of the model.
inject(s, doc, opts) == place(s, doc, preparedTag(s, opts))

(***************************************************************************)
(* injector.py                                                             *)
(***************************************************************************)
INFO_COMMENT_PREFIX == "[Userscript Proxy v0.2.0]"

\* A search that sees a doctype only when it is the first node.
indexOfDoctypeLeadingOnly(doc) ==
    IF Len(doc) > 0 /\ doc[1].kind = "doctype" THEN 0 ELSE -1

\* The first Doctype of soup.contents as a 0-based index, -1 for None.

indexOfDoctype(doc) ==
    LET c == contents(doc)
    IN  IF \E k \in 1..Len(c) : doc[c[k]].kind = "doctype"
        THEN (CHOOSE k \in 1..Len(c) :
                  /\ doc[c[k]].kind = "doctype"
                  /\ \A j \in 1..(k - 1) : doc[c[j]].kind # "doctype") - 1
        ELSE -1

\* userscript.wrapInEventListener("load", content)
wrapInEventListener(js) == <<"window.addEventListener(load)">> \o js

\* response, lines 126-134: the tag of one applicable script.
responseTag(s) ==
    [new_tag EXCEPT !.string =
        IF s.runAt = document_idle THEN wrapInEventListener(<<s.content>>)
        ELSE <<s.content>>]

\* A handler that appends every tag to body.
responseTargetAlwaysBody(s) == "body"

\* response, lines 127-135: the element the tag is appended to.
responseTarget(s) ==
    IF s.runAt = document_start \/ s.runAt = document_idle THEN "head"
    ELSE "body"

\* response, lines 138-143.
infoComment(inserted) ==
    [Plain("comment", 0) EXCEPT !.string =
        <<INFO_COMMENT_PREFIX>> \o
        (IF inserted = <<>> THEN <<"No matching userscripts for this URL.">>
         ELSE <<"These scripts were inserted:">> \o inserted)]

VARIABLES
    tags, metadata, result,   \* validate: its arguments and its outcome
    content,                  \* the document as received
    soup,                     \* the document tree being rewritten
    script, options,          \* inject: its arguments
    userscripts,              \* UserscriptInjector.userscripts
    isApplicable,             \* applicableChecker(url) on each loaded script
    webPage,                  \* the Content-Type is one of RELEVANT_CONTENT_TYPES
    pc, idx, insertedScripts  \* response: position, loop index, local list

vvars == <<tags, metadata, result>>
rvars == <<content, soup, script, options, userscripts, isApplicable, webPage,
           pc, idx, insertedScripts>>
vars == <<tags, metadata, result, content, soup, script, options, userscripts,
          isApplicable, webPage, pc, idx, insertedScripts>>

NoScript == Userscript(1, document_end, FALSE, PyNone)
NoOptions == [inline |-> FALSE, verbose |-> FALSE]

RewriteIdle ==
    /\ content = <<>> /\ soup = <<>>
    /\ script = NoScript /\ options = NoOptions
    /\ userscripts = <<>> /\ isApplicable = <<>> /\ webPage = FALSE
    /\ pc = "idle" /\ idx = 0 /\ insertedScripts = <<>>

ValidateIdle ==
    /\ tags = <<>> /\ metadata = <<>> /\ result = Pending

(***************************************************************************)
(* validate(tags, metadata) on every schema and metadata of the bounds.    *)
(***************************************************************************)
ValidateInit ==
    /\ tags \in Schemas
    /\ metadata \in Metadatas
    /\ result = Pending
    /\ RewriteIdle

Validate ==
    /\ result = Pending
    /\ pc = "idle"
    /\ result' = validate(tags, metadata)
    /\ UNCHANGED <<tags, metadata>>
    /\ UNCHANGED rvars

ValidateNext == Validate

SpecValidate == ValidateInit /\ [][ValidateNext]_vars

(***************************************************************************)
(* The rewrite of one document: inject(script, soup, options) on it, or    *)
(* UserscriptInjector.response on the flow that carries it.                *)
(***************************************************************************)
InjectInit ==
    /\ content \in Documents /\ soup = content
    /\ script \in InjectScripts /\ options \in Options
    /\ userscripts = <<>> /\ isApplicable = <<>> /\ webPage = TRUE
    /\ pc = "inject" /\ idx = 0 /\ insertedScripts = <<>>

ResponseInit ==
    /\ content \in Documents /\ soup = content
    /\ script = NoScript /\ options = NoOptions
    /\ userscripts \in LoadedScripts
    /\ isApplicable \in [1..Len(userscripts) -> BOOLEAN]
    /\ webPage \in BOOLEAN
    /\ ~webPage => userscripts = <<>>
    /\ pc = "response" /\ idx = 0 /\ insertedScripts = <<>>

RewriteInit == ValidateIdle /\ (InjectInit \/ ResponseInit)

Inject ==
    /\ pc = "inject"
    /\ soup' = inject(script, soup, options)
    /\ pc' = "injected"
    /\ UNCHANGED <<content, script, options, userscripts, isApplicable, webPage,
                   idx, insertedScripts>>
    /\ UNCHANGED vvars

\* response, lines 114-121.
ResponseBegin ==
    /\ pc = "response"
    /\ IF webPage
       THEN pc' = "loop" /\ idx' = 1
       ELSE pc' = "skipped" /\ idx' = idx
    /\ UNCHANGED <<content, soup, script, options, userscripts, isApplicable,
                   webPage, insertedScripts>>
    /\ UNCHANGED vvars

\* response, lines 122-135: one iteration of the loop.  soup.head.append and
\* soup.body.append raise AttributeError when the element is None, and
\* nothing in response catches it.
ResponseScript ==
    /\ pc = "loop"
    /\ idx <= Len(userscripts)
    /\ LET s == userscripts[idx]
           target == findTag(soup, responseTarget(s))
       IN  IF ~isApplicable[idx]
           THEN /\ idx' = idx + 1
                /\ UNCHANGED <<soup, pc, insertedScripts>>
           ELSE /\ insertedScripts' = Append(insertedScripts, s.name)
                /\ IF target = 0
                   THEN pc' = "raised" /\ UNCHANGED <<soup, idx>>
                   ELSE /\ soup' = append(soup, target, responseTag(s))
                        /\ idx' = idx + 1
                        /\ pc' = pc
    /\ UNCHANGED <<content, script, options, userscripts, isApplicable, webPage>>
    /\ UNCHANGED vvars

\* response, lines 136-147: the information comment, then the document is
\* serialized in the charset of the Content-Type header.
ResponseComment ==
    /\ pc = "loop"
    /\ idx > Len(userscripts)
    /\ LET index == indexOfDoctype(soup)
       IN  soup' = soupInsert(soup, IF index = -1 THEN 0 ELSE 1 + index,
                              infoComment(insertedScripts))
    /\ pc' = "done"
    /\ UNCHANGED <<content, script, options, userscripts, isApplicable, webPage,
                   idx, insertedScripts>>
    /\ UNCHANGED vvars

Next == Inject \/ ResponseBegin \/ ResponseScript \/ ResponseComment

Spec == RewriteInit /\ [][Next]_vars

(***************************************************************************)
(* Properties of validate (under SpecValidate).                            *)
(***************************************************************************)
Count(items, n) == Cardinality({i \in 1..Len(items) : first(items[i]) = n})

\* The items of s at the indices of K, in order.
Select(s, K) ==
    LET f[n \in 0..Len(s)] ==
            IF n = 0 THEN <<>>
            ELSE IF n \in K THEN Append(f[n - 1], s[n]) ELSE f[n - 1]
    IN  f[Len(s)]

IsKnown(n) == \E i \in 1..Len(tags) : tags[i].name = n
TagNamed(n) == tags[CHOOSE i \in 1..Len(tags) : tags[i].name = n]

RequiredAbsent(n) ==
    \E i \in 1..Len(tags) :
        tags[i].name = n /\ tags[i].required /\ Count(metadata, n) = 0

\* C1: validate raises the missing-required-tag error for tag T exactly when
\* T is required and no item is named T, in any order of the tags and of the
\* items; with every required tag present the error is never raised.
C1_MissingTagExactlyWhenAbsent ==
    result.err # "pending" =>
        /\ result.err = "MISSING_TAG" => RequiredAbsent(result.tagName)
        /\ (\E n \in TagNames : RequiredAbsent(n)) => result.err = "MISSING_TAG"

\* C2: whenever validate returns, the returned metadata has at least one
\* item for every required tag and at most one for every unique tag.
C2_ReturnedRequiredAndUnique ==
    result.err = "none" =>
        \A i \in 1..Len(tags) :
            /\ tags[i].required => Count(result.metadata, tags[i].name) >= 1
            /\ tags[i].unique => Count(result.metadata, tags[i].name) <= 1

C2_Witness ==
    /\ result.err = "none"
    /\ \E i \in 1..Len(tags) : tags[i].required
    /\ \E i \in 1..Len(tags) :
           tags[i].unique /\ Count(metadata, tags[i].name) >= 2

\* The indices de-duplication keeps: every item but a later occurrence of
\* a name that the schema marks unique.
KeptIndices ==
    {i \in 1..Len(metadata) :
        ~(/\ IsKnown(first(metadata[i]))
          /\ TagNamed(first(metadata[i])).unique
          /\ \E j \in 1..(i - 1) : first(metadata[j]) = first(metadata[i]))}

\* C3: de-duplication keeps the first occurrence of each unique tag and
\* drops the later ones, never drops an item of a non-unique or unknown
\* tag, and keeps the survivors in their input order; a returned result
\* starts with the survivors.
C3_KeepsFirstOfUnique ==
    result.err # "pending" =>
        /\ withoutDuplicates(tags, metadata) = Select(metadata, KeptIndices)
        /\ result.err = "none" =>
               /\ Len(result.metadata) >= Cardinality(KeptIndices)
               /\ Names(SubSeq(result.metadata, 1, Cardinality(KeptIndices)))
                      = Names(Select(metadata, KeptIndices))

C3_Witness ==
    /\ result.err = "none"
    /\ Len(metadata) = 3
    /\ \E i \in 1..Len(tags) :
           tags[i].unique /\ Count(metadata, tags[i].name) = 2
                          /\ Count(result.metadata, tags[i].name) = 1
    /\ \E n \in TagNames :
           ~(IsKnown(n) /\ TagNamed(n).unique) /\ Count(metadata, n) = 1
               /\ Count(result.metadata, n) = 1

\* The defaults the schema supplies for the tags absent from items.
DefaultIndices(items) ==
    {i \in 1..Len(tags) :
        tags[i].default # PyNone /\ Count(items, tags[i].name) = 0}

ExpectedDefaults(items) ==
    LET chosen == Select(tags, DefaultIndices(items))
    IN  [k \in 1..Len(chosen) |->
            [name |-> chosen[k].name, value |-> chosen[k].default]]

\* C4: validate appends (name, default) for a tag exactly when its default
\* is not null and no de-duplicated item has the name; the result is the
\* de-duplicated items in their order, then the appended defaults.
C4_DefaultsOnlyWhenAbsent ==
    result.err = "none" =>
        LET d == Select(metadata, KeptIndices)
            r == result.metadata
        IN  /\ Len(r) = Len(d) + Cardinality(DefaultIndices(d))
            /\ \A i \in 1..Len(d) :
                   /\ first(r[i]) = first(d[i])
                   /\ (IsKnown(first(d[i]))
                          /\ TagNamed(first(d[i])).kind = "Tag_boolean")
                      \/ second(r[i]) = second(d[i])
            /\ SubSeq(r, Len(d) + 1, Len(r)) = ExpectedDefaults(d)

C4_Witness ==
    /\ result.err = "none"
    /\ \E i \in 1..Len(tags) :
           tags[i].default # PyNone /\ Count(metadata, tags[i].name) >= 1
    /\ \E i \in 1..Len(tags) :
           tags[i].default # PyNone /\ Count(metadata, tags[i].name) = 0
               /\ Count(result.metadata, tags[i].name) = 1

IsBooleanItem(item) ==
    IsKnown(first(item)) /\ TagNamed(first(item)).kind = "Tag_boolean"

\* C5 as stated: in every returned result, every item of a boolean-typed
\* tag holds true, whatever it held before coercion.
C5_BooleanAlwaysTrue ==
    result.err = "none" =>
        \A i \in 1..Len(result.metadata) :
            IsBooleanItem(result.metadata[i])
                => second(result.metadata[i]) = PyTrue

\* C5 as amended: in every returned result, an item of a boolean-typed tag
\* that parse read from the metadata holds true, with or without trailing text;
\* an item appended from the tag's default holds that default, so a default
\* of false stays false.
C5_BooleanTrueUnlessDefaultFalse ==
    result.err = "none" =>
        LET r == result.metadata
            n == Cardinality(KeptIndices)
        IN  \A i \in 1..Len(r) :
                IsBooleanItem(r[i]) =>
                    IF i <= n THEN second(r[i]) = PyTrue
                    ELSE second(r[i]) = TagNamed(first(r[i])).default

C5_Witness ==
    /\ result.err = "none"
    /\ \E i \in 1..Len(metadata) :
           IsBooleanItem(metadata[i]) /\ IsStr(second(metadata[i]))
    /\ \E i \in 1..Len(result.metadata) :
           IsBooleanItem(result.metadata[i])
               /\ second(result.metadata[i]) = PyTrue

(***************************************************************************)
(* Properties of inject and of the response rewrite (under Spec).          *)
(***************************************************************************)
ScriptTags(doc) == {i \in 1..Len(doc) : doc[i].kind = "script"}
Comments(doc) == {i \in 1..Len(doc) : doc[i].kind = "comment"}
TheOnly(S) == CHOOSE i \in S : TRUE

Remove(doc, i) == SubSeq(doc, 1, i - 1) \o SubSeq(doc, i + 1, Len(doc))

\* The parent of node i, 0 for a node of soup.contents.
Parent(doc, i) ==
    IF doc[i].depth = 0 THEN 0
    ELSE CHOOSE q \in 1..(i - 1) :
             /\ doc[q].depth = doc[i].depth - 1
             /\ \A k \in (q + 1)..(i - 1) : doc[k].depth >= doc[i].depth

\* Node i (a leaf) is a child of the first element of that kind.
IsChildOf(doc, i, kind) ==
    /\ Parent(doc, i) # 0
    /\ Parent(doc, i) = findTag(doc, kind)

\* No sibling follows the leaf i under its parent.
IsLastChild(doc, i) == i = Len(doc) \/ doc[i + 1].depth < doc[i].depth

\* The siblings that follow leaf i under its parent.
LaterSiblings(doc, i) ==
    {k \in (i + 1)..Len(doc) :
        /\ doc[k].depth = doc[i].depth
        /\ \A j \in (i + 1)..k : doc[j].depth >= doc[i].depth}

\* The tag at t of new was put into old as late as possible: as the last
\* child of <body>, or as the last node of a document without <body>.
PlacedLate(old, new, t) ==
    /\ Remove(new, t) = old
    /\ IF findTag(old, "body") # 0
       THEN IsChildOf(new, t, "body") /\ IsLastChild(new, t)
       ELSE new[t].depth = 0 /\ t = Len(new)

\* The tag at t of new was put into old as early as possible: before the
\* first element inside <body>; else right after <title>; else right after
\* the first element; else into the empty document.
PlacedEarly(old, new, t) ==
    LET body == findTag(old, "body")
        title == findTag(old, "title")
        inBody == {k \in 1..Len(old) :
                      /\ body # 0 /\ k > body /\ IsElement(old[k])
                      /\ \A j \in (body + 1)..k : old[j].depth > old[body].depth}
        elements == {k \in 1..Len(old) : IsElement(old[k])}
        Min(S) == CHOOSE k \in S : \A j \in S : k <= j
        After(e) == /\ t > e /\ new[t].depth = old[e].depth
                    /\ \A j \in (e + 1)..(t - 1) : old[j].depth > old[e].depth
                    /\ t = Len(new) \/ new[t + 1].depth <= old[e].depth
    IN  /\ Remove(new, t) = old
        /\ IF inBody # {}
           THEN t = Min(inBody) /\ new[t].depth = old[t].depth
           ELSE IF title # 0 THEN After(title)
           ELSE IF elements # {} THEN After(Min(elements))
           ELSE t = Len(new) /\ new[t].depth = 0

Injected == pc = "injected" /\ Cardinality(ScriptTags(soup)) = 1
InjectedTag == TheOnly(ScriptTags(soup))

\* The scripts the response loop has gone through, and those it appended.
Processed == IF pc \in {"loop", "done"} THEN 1..(idx - 1) ELSE {}
Appended == {j \in Processed : isApplicable[j]}

\* The tag the response handler made for script j.
TagsOf(j) ==
    {i \in ScriptTags(soup) :
        soup[i].string[Len(soup[i].string)] = userscripts[j].content}

\* C6 as stated: for runAt = end the tag is inserted as early as possible.
C6_EndInsertedEarly ==
    /\ (Injected /\ script.runAt = document_end)
           => PlacedEarly(content, soup, InjectedTag)
    /\ \A j \in Appended :
           (userscripts[j].runAt = document_end /\ j = idx - 1 /\ pc = "loop")
               => \E t \in TagsOf(j) : PlacedEarly(Remove(soup, t), soup, t)

\* C6 as amended: for runAt = end the tag is inserted as late as possible:
\* inject appends it as the last child of <body>, or to the document when
\* there is no <body>; the response handler appends it as the last child
\* of <body>.
C6_EndInsertedLate ==
    /\ (Injected /\ script.runAt = document_end)
           => PlacedLate(content, soup, InjectedTag)
    /\ \A j \in Appended :
           (userscripts[j].runAt = document_end /\ j = idx - 1 /\ pc = "loop")
               => /\ Cardinality(TagsOf(j)) = 1
                  /\ findTag(content, "body") # 0
                  /\ PlacedLate(Remove(soup, TheOnly(TagsOf(j))), soup,
                                TheOnly(TagsOf(j)))

C6_Witness ==
    /\ Injected /\ script.runAt = document_end
    /\ findTag(content, "body") # 0
    /\ findIn(content, findTag(content, "body")) # 0
    /\ findTag(content, "title") # 0

StartOrIdle(s) == s.runAt = document_start \/ s.runAt = document_idle

\* C7 as stated: for runAt = start or idle the tag is appended as the last
\* child of <head>, whatever <body> holds: after the rewrite it is a child
\* of <head> and no sibling follows it there.
C7_StartIdleLastInHead ==
    /\ (Injected /\ StartOrIdle(script) /\ findTag(content, "head") # 0)
           => /\ IsChildOf(soup, InjectedTag, "head")
              /\ IsLastChild(soup, InjectedTag)
    /\ pc = "done" =>
           \A j \in Appended : StartOrIdle(userscripts[j]) =>
               \E t \in TagsOf(j) :
                   IsChildOf(soup, t, "head") /\ IsLastChild(soup, t)

\* C7 as amended: in the response handler, for runAt = start or idle the
\* tag is appended as the last child of <head>, whatever <body> holds, so
\* after the rewrite it is a child of <head> and only tags of later scripts
\* follow it there; inject instead places such a tag as early as possible
\* (before the first element inside <body>, else after <title>, else after
\* the first element, else into the empty document).
C7_StartIdlePlacement ==
    /\ (Injected /\ StartOrIdle(script))
           => PlacedEarly(content, soup, InjectedTag)
    /\ \A j \in Appended : StartOrIdle(userscripts[j]) =>
           /\ Cardinality(TagsOf(j)) = 1
           /\ LET t == TheOnly(TagsOf(j))
              IN  /\ IsChildOf(soup, t, "head")
                  /\ \A k \in LaterSiblings(soup, t) :
                         \E l \in Appended : l > j /\ k \in TagsOf(l)
                  /\ (j = idx - 1 /\ pc = "loop") => IsLastChild(soup, t)

C7_Witness ==
    /\ pc = "done"
    /\ findTag(content, "meta") # 0
    /\ findTag(content, "p") # 0
    /\ \E j, l \in Appended :
           /\ j < l
           /\ userscripts[j].runAt = document_start
           /\ userscripts[l].runAt = document_idle

\* C8: the tag inject builds carries src (the version-suffixed download
\* URL) and no inline body exactly when the script is loaded remotely and
\* runAt is not idle and noframes is false; every other tag has an inline
\* body and no src.
C8_SrcExactlyWhenPlainRemote ==
    Injected =>
        LET tag == soup[InjectedTag]
            plainRemote == /\ script.downloadURL # PyNone /\ ~options.inline
                           /\ script.runAt # document_idle /\ ~script.noframes
        IN  /\ plainRemote =>
                /\ tag.src = withVersionSuffix(script.downloadURL, script.version)
                /\ tag.string = <<>>
            /\ ~plainRemote => tag.src = PyNone /\ tag.string # <<>>

C8_Witness ==
    /\ Injected
    /\ soup[InjectedTag].src # PyNone
    /\ script.runAt = document_start

\* The first doctype among the nodes of soup.contents of the document as
\* received, 0 when there is none.
FirstDoctype ==
    LET ds == {i \in 1..Len(content) :
                  content[i].kind = "doctype" /\ content[i].depth = 0}
    IN  IF ds = {} THEN 0 ELSE CHOOSE i \in ds : \A j \in ds : i <= j

\* The comment is the next node of soup.contents after node d of content.
CommentRightAfter(d) ==
    LET c == TheOnly(Comments(soup))
    IN  /\ soup[c].depth = 0
        /\ c > d
        /\ \A k \in (d + 1)..(c - 1) : soup[k].depth > 0

\* C9 as stated: after the response rewrite exactly one diagnostic comment
\* has been inserted: right after the doctype when a doctype is the first
\* node of the document, and as the very first node otherwise.
C9_CommentAfterLeadingDoctypeElseFirst ==
    pc = "done" =>
        /\ Cardinality(Comments(soup)) = 1
        /\ IF FirstDoctype = 1 THEN CommentRightAfter(1)
           ELSE TheOnly(Comments(soup)) = 1

\* C9 as amended: after the response rewrite exactly one diagnostic comment
\* has been inserted: right after the first doctype among the document's
\* top-level nodes, wherever that doctype stands, and as the very first
\* node when there is no such doctype.
C9_CommentAfterFirstDoctype ==
    pc = "done" =>
        /\ Cardinality(Comments(soup)) = 1
        /\ soup[TheOnly(Comments(soup))].string[1] = INFO_COMMENT_PREFIX
        /\ IF FirstDoctype # 0 THEN CommentRightAfter(FirstDoctype)
           ELSE TheOnly(Comments(soup)) = 1

C9_Witness ==
    /\ pc = "done"
    /\ FirstDoctype > 1
    /\ insertedScripts # <<>>

\* The applicable scripts whose insertion fails on this document.
Failing ==
    {j \in 1..Len(userscripts) :
        isApplicable[j] /\ findTag(content, responseTarget(userscripts[j])) = 0}

\* C10: a failure while inserting the tag of one applicable script does not
\* stop the loop: when the handler has ended, every script has been gone
\* through, the diagnostic comment is in the document, and no failed script
\* is in the list of inserted scripts.
C10_FaultIsolation ==
    (pc \in {"done", "raised"}) =>
        /\ idx > Len(userscripts)
        /\ Cardinality(Comments(soup)) = 1
        /\ \A j \in Failing : ~InSeq(userscripts[j].name, insertedScripts)

====
